---- MODULE Spec2Model ----
(***************************************************************************)
(* Model of FortranCompiler (lib/compilers/fortran.ts): resolution of      *)
(* static-link, shared-library-path and include arguments for a library    *)
(* list, and the invocation of the compiler as a child process.            *)
(*                                                                         *)
(* Strings are sequences of tokens: "/" and "." are one-character tokens,  *)
(* every other token is an opaque word without separators.  JS string      *)
(* concatenation is \o, the empty string is << >>.                         *)
(***************************************************************************)
EXTENDS Integers, Sequences, FiniteSets, TLC

VARIABLES compiler, buildenvsetup, fs, call, rewriting, heap, inv

vars == <<compiler, buildenvsetup, fs, call, rewriting, heap, inv>>

(***************************************************************************)
(* Bounds                                                                  *)
(***************************************************************************)
MaxLibs == 2
MaxDirs == 2
MaxInvocations == 2
MaxExitCode == 1

(***************************************************************************)
(* Generic sequence helpers                                                *)
(***************************************************************************)
RECURSIVE Cat(_)
Cat(ss) == IF ss = << >> THEN << >> ELSE Head(ss) \o Cat(Tail(ss))

Range(s) == {s[i] : i \in DOMAIN s}

RemoveAt(s, i) == SubSeq(s, 1, i - 1) \o SubSeq(s, i + 1, Len(s))

\* sequences of pairwise distinct elements of S, of length at most n
DistinctSeqs(S, n) ==
    {s \in UNION {[1..k -> S] : k \in 0..n} :
        \A i, j \in DOMAIN s : i /= j => s[i] /= s[j]}

(***************************************************************************)
(* node:path                                                               *)
(***************************************************************************)
Sep == "/"

\* collapse runs of separators (path.normalize on paths without "." / ".."
\* segments, which the inputs below never contain)
RECURSIVE Normalize(_)
Normalize(p) ==
    IF Len(p) < 2 THEN p
    ELSE IF p[1] = Sep /\ p[2] = Sep THEN Normalize(Tail(p))
    ELSE <<p[1]>> \o Normalize(Tail(p))

RECURSIVE JoinRaw(_)
JoinRaw(parts) ==
    IF parts = << >> THEN << >>
    ELSE IF Head(parts) = << >> THEN JoinRaw(Tail(parts))
    ELSE LET rest == JoinRaw(Tail(parts))
         IN  IF rest = << >> THEN Head(parts) ELSE Head(parts) \o <<Sep>> \o rest

\* path.join(...parts)
PathJoin(parts) ==
    LET j == Normalize(JoinRaw(parts))
    IN  IF j = << >> THEN <<".">> ELSE j

LastSep(p) ==
    LET idx == {i \in DOMAIN p : p[i] = Sep}
    IN  IF idx = {} THEN 0 ELSE CHOOSE i \in idx : \A k \in idx : k <= i

\* path.dirname(p)
Dirname(p) ==
    LET k == LastSep(p)
    IN  IF k = 0 THEN <<".">>
        ELSE IF k = 1 THEN <<Sep>>
        ELSE SubSeq(p, 1, k - 1)

\* path.basename(p)
Basename(p) == SubSeq(p, LastSep(p) + 1, Len(p))

(***************************************************************************)
(* JS values                                                               *)
(***************************************************************************)
\* the boolean false as an element of an array typed string[]
JsFalse == <<"#false">>

\* string conversion applied by `flag + value`
ToStr(v) == IF v = JsFalse THEN <<"false">> ELSE v

\* Array.prototype.flat() on an array whose elements are arrays or non-arrays
RECURSIVE Flat(_)
Flat(xs) ==
    IF xs = << >> THEN << >>
    ELSE (IF Head(xs).isArray THEN Head(xs).items ELSE <<Head(xs).value>>)
         \o Flat(Tail(xs))

\* _.uniq: keep the first occurrence of every element
RECURSIVE Uniq(_)
Uniq(s) ==
    IF s = << >> THEN << >>
    ELSE LET front == Uniq(SubSeq(s, 1, Len(s) - 1))
             last  == s[Len(s)]
         IN  IF last \in Range(front) THEN front ELSE Append(front, last)

\* _.union(...arrays) = uniq(flatten(arrays, shallow))
Union(arrays) == Uniq(Cat(arrays))

(***************************************************************************)
(* Environment: library registry, directories, files                      *)
(***************************************************************************)
Absent == [found |-> FALSE]

DirA == <<Sep, "A">>
DirB == <<Sep, "B">>
DirC == <<Sep, "C">>
SearchDirs == {DirA, DirB, DirC}

LapackLib == <<Sep, "opt", Sep, "lapack">>
BlasLib   == <<Sep, "opt", Sep, "blas">>
FmtInc    == <<Sep, "opt", Sep, "fmt">>

\* library ids of a request; "" is the empty (falsy) identifier
LibIds == {"lapack", "blas", "fmt", "ghost"}
StaticLibIds == LibIds \cup {""}

IdStr(id) == IF id = "" THEN << >> ELSE <<id>>

\* the registry behind findLibVersion: "ghost" has no metadata
Registry ==
    [lapack |-> [found |-> TRUE, path |-> <<LapackLib \o <<Sep, "include">>>>,
                 libpath |-> <<LapackLib>>, packagedheaders |-> FALSE],
     blas   |-> [found |-> TRUE, path |-> << >>,
                 libpath |-> <<LapackLib, BlasLib>>, packagedheaders |-> TRUE],
     fmt    |-> [found |-> TRUE, path |-> <<FmtInc, FmtInc \o <<Sep, "extra">>>>,
                 libpath |-> << >>, packagedheaders |-> TRUE]]

\* BaseCompiler.findLibVersion(selectedLib)
findLibVersion(selectedLib) ==
    IF selectedLib.id \in DOMAIN Registry THEN Registry[selectedLib.id] ELSE Absent

\* dependency rank of a library used by getSortedStaticLibraries
StaticRank(id) ==
    CASE id = "blas" -> 1
      [] id = "lapack" -> 2
      [] id = "" -> 2
      [] id = "fmt" -> 3
      [] OTHER -> 4

RECURSIVE InsertByRank(_, _)
InsertByRank(sorted, id) ==
    IF sorted = << >> THEN <<id>>
    ELSE IF StaticRank(id) < StaticRank(Head(sorted)) THEN <<id>> \o sorted
    ELSE <<Head(sorted)>> \o InsertByRank(Tail(sorted), id)

RECURSIVE SortIds(_)
SortIds(ids) ==
    IF ids = << >> THEN << >>
    ELSE InsertByRank(SortIds(SubSeq(ids, 1, Len(ids) - 1)), ids[Len(ids)])

\* BaseCompiler.getSortedStaticLibraries(libraries): the library names in
\* dependency order (stable)
getSortedStaticLibraries(libraries) ==
    LET sorted == SortIds([i \in DOMAIN libraries |-> libraries[i].id])
    IN  [i \in DOMAIN sorted |-> IdStr(sorted[i])]

LibFilename(lib) == <<"lib">> \o lib \o <<".a">>

\* files that may exist on disk
CandidateFiles ==
    {PathJoin(<<DirA, LibFilename(<<"lapack">>)>>),
     PathJoin(<<DirB, LibFilename(<<"lapack">>)>>),
     PathJoin(<<DirB, LibFilename(<<"blas">>)>>),
     PathJoin(<<DirC, LibFilename(<<"blas">>)>>)}

\* fs.existsSync(p)
existsSync(p) == p \in fs

\* toolchain configurations (this.compiler); << >> is an omitted flag
Compilers ==
    {[includeFlag |-> << >>, rpathFlag |-> << >>, libpathFlag |-> << >>,
      libPath |-> << >>],
     [includeFlag |-> <<"-isystem">>, rpathFlag |-> <<"-rpath=">>,
      libpathFlag |-> <<"-L">>,
      libPath |-> <<<<Sep, "usr", Sep, "lib">>, <<Sep, "tc", Sep, "lib64">>>>],
     [includeFlag |-> <<"-I">>, rpathFlag |-> <<"-L">>, libpathFlag |-> <<"-L">>,
      libPath |-> <<LapackLib, <<Sep, "dl">>>>]}

\* BaseCompiler.defaultRpathFlag
defaultRpathFlag == <<"-Wl,-rpath,">>

\* this.buildenvsetup: not configured, or configured with extractAllToRoot
BuildEnvSetups == {"none", "extractAllToRoot", "perLibrary"}

DownloadDirs == {<< >>, <<Sep, "dl">>}
ToolchainDirs == {<< >>, <<Sep, "tc">>}

LibraryLists(ids) ==
    {[i \in DOMAIN s |-> [id |-> s[i]]] : s \in DistinctSeqs(ids, MaxLibs)}

(***************************************************************************)
(* FortranCompiler: argument resolution                                    *)
(***************************************************************************)
\* variant: the loop keeps probing and the last hit wins
RECURSIVE ProbeDirsLastHit(_, _)
ProbeDirsLastHit(libFilename, libPaths) ==
    IF libPaths = << >> THEN << >>
    ELSE LET testpath == PathJoin(<<libPaths[Len(libPaths)], libFilename>>)
         IN  IF existsSync(testpath) THEN testpath
             ELSE ProbeDirsLastHit(libFilename, SubSeq(libPaths, 1, Len(libPaths) - 1))

RECURSIVE ProbeDirs(_, _)
ProbeDirs(libFilename, libPaths) ==
    IF libPaths = << >> THEN << >>
    ELSE LET testpath == PathJoin(<<Head(libPaths), libFilename>>)
         IN  IF existsSync(testpath) THEN testpath
             ELSE ProbeDirs(libFilename, Tail(libPaths))

getExactStaticLibNameAndPath(lib, libPaths) ==
    ProbeDirs(LibFilename(lib), libPaths)

getStaticLibraryLinks(libraries, libPaths) ==
    LET sorted == getSortedStaticLibraries(libraries)
        kept   == SelectSeq(sorted, LAMBDA lib : lib /= << >>)
    IN  [i \in DOMAIN kept |-> getExactStaticLibNameAndPath(kept[i], libPaths)]

\* variant: the synthesized path is also added when no build-environment
\* setup is configured
SharedPathsOfNoSetupCheck(selectedLib, dirPath) ==
    LET foundVersion == findLibVersion(selectedLib)
    IN  IF ~foundVersion.found THEN [isArray |-> FALSE, value |-> JsFalse]
        ELSE [isArray |-> TRUE,
              items |->
                foundVersion.libpath \o
                (IF buildenvsetup /= "extractAllToRoot" /\ dirPath /= << >>
                 THEN <<PathJoin(<<dirPath, IdStr(selectedLib.id), <<"lib">>>>)>>
                 ELSE << >>)]

SharedPathsOf(selectedLib, dirPath) ==
    LET foundVersion == findLibVersion(selectedLib)
    IN  IF ~foundVersion.found THEN [isArray |-> FALSE, value |-> JsFalse]
        ELSE [isArray |-> TRUE,
              items |->
                foundVersion.libpath \o
                (IF buildenvsetup /= "none" /\ buildenvsetup /= "extractAllToRoot"
                    /\ dirPath /= << >>
                 THEN <<PathJoin(<<dirPath, IdStr(selectedLib.id), <<"lib">>>>)>>
                 ELSE << >>)]

getSharedLibraryPaths(libraries, dirPath) ==
    Flat([i \in DOMAIN libraries |-> SharedPathsOf(libraries[i], dirPath)])

IncludeFlagInUse ==
    IF compiler.includeFlag /= << >> THEN compiler.includeFlag ELSE <<"-I">>

\* variant: the module path is given the configured include flag
IncludeArgsOfModFlag(selectedLib, dirPath) ==
    LET includeFlag  == IncludeFlagInUse
        foundVersion == findLibVersion(selectedLib)
    IN  IF ~foundVersion.found THEN << >>
        ELSE [i \in DOMAIN foundVersion.path |-> includeFlag \o foundVersion.path[i]]
             \o (IF foundVersion.packagedheaders
                 THEN LET modPath == PathJoin(<<dirPath, IdStr(selectedLib.id), <<"mod">>>>)
                          includePath ==
                              PathJoin(<<dirPath, IdStr(selectedLib.id), <<"include">>>>)
                      IN  <<includeFlag \o modPath, includeFlag \o includePath>>
                 ELSE << >>)

IncludeArgsOf(selectedLib, dirPath) ==
    LET includeFlag  == IncludeFlagInUse
        foundVersion == findLibVersion(selectedLib)
    IN  IF ~foundVersion.found THEN << >>
        ELSE [i \in DOMAIN foundVersion.path |-> includeFlag \o foundVersion.path[i]]
             \o (IF foundVersion.packagedheaders
                 THEN LET modPath == PathJoin(<<dirPath, IdStr(selectedLib.id), <<"mod">>>>)
                          includePath ==
                              PathJoin(<<dirPath, IdStr(selectedLib.id), <<"include">>>>)
                      IN  <<<<"-I">> \o modPath, includeFlag \o includePath>>
                 ELSE << >>)

getIncludeArguments(libraries, dirPath) ==
    Cat([i \in DOMAIN libraries |-> IncludeArgsOf(libraries[i], dirPath)])

getSharedLibraryPathsAsArguments(libraries, libDownloadPathArg, toolchainPath, dirPath) ==
    LET pathFlag == IF compiler.rpathFlag /= << >> THEN compiler.rpathFlag
                    ELSE defaultRpathFlag
        libPathFlag == IF compiler.libpathFlag /= << >> THEN compiler.libpathFlag
                       ELSE <<"-L">>
        toolchainLibraryPaths ==
            IF toolchainPath /= << >>
            THEN <<PathJoin(<<toolchainPath, <<Sep, "lib64">>>>),
                   PathJoin(<<toolchainPath, <<Sep, "lib32">>>>)>>
            ELSE << >>
        libDownloadPath == IF libDownloadPathArg = << >> THEN <<".", Sep, "lib">>
                           ELSE libDownloadPathArg
        shared == getSharedLibraryPaths(libraries, dirPath)
    IN  Union(<<
            <<libPathFlag \o libDownloadPath>>,
            <<pathFlag \o libDownloadPath>>,
            [i \in DOMAIN compiler.libPath |-> pathFlag \o compiler.libPath[i]],
            [i \in DOMAIN toolchainLibraryPaths |-> pathFlag \o toolchainLibraryPaths[i]],
            [i \in DOMAIN shared |-> pathFlag \o ToStr(shared[i])],
            [i \in DOMAIN shared |-> libPathFlag \o ToStr(shared[i])]
        >>)

(***************************************************************************)
(* Argument resolution as a state machine: one request per behaviour, on   *)
(* a toolchain configuration and a filesystem chosen initially.            *)
(***************************************************************************)
NoCall == [op |-> "none"]

StaticNames == {<<"lapack">>, <<"blas">>, <<"fmt">>}

CallGetExactStaticLibNameAndPath ==
    /\ call = NoCall
    /\ \E lib \in StaticNames, libPaths \in DistinctSeqs(SearchDirs, MaxDirs) :
         call' = [op |-> "getExactStaticLibNameAndPath", lib |-> lib,
                  libPaths |-> libPaths,
                  result |-> getExactStaticLibNameAndPath(lib, libPaths)]
    /\ UNCHANGED <<compiler, buildenvsetup, fs, rewriting, heap, inv>>

CallGetStaticLibraryLinks ==
    /\ call = NoCall
    /\ \E libraries \in LibraryLists(StaticLibIds),
          libPaths \in DistinctSeqs(SearchDirs, MaxDirs) :
         call' = [op |-> "getStaticLibraryLinks", libraries |-> libraries,
                  libPaths |-> libPaths,
                  result |-> getStaticLibraryLinks(libraries, libPaths)]
    /\ UNCHANGED <<compiler, buildenvsetup, fs, rewriting, heap, inv>>

CallGetSharedLibraryPaths ==
    /\ call = NoCall
    /\ \E libraries \in LibraryLists(LibIds), dirPath \in DownloadDirs :
         call' = [op |-> "getSharedLibraryPaths", libraries |-> libraries,
                  dirPath |-> dirPath,
                  result |-> getSharedLibraryPaths(libraries, dirPath)]
    /\ UNCHANGED <<compiler, buildenvsetup, fs, rewriting, heap, inv>>

CallGetIncludeArguments ==
    /\ call = NoCall
    /\ \E libraries \in LibraryLists(LibIds), dirPath \in DownloadDirs \ {<< >>} :
         call' = [op |-> "getIncludeArguments", libraries |-> libraries,
                  dirPath |-> dirPath,
                  result |-> getIncludeArguments(libraries, dirPath)]
    /\ UNCHANGED <<compiler, buildenvsetup, fs, rewriting, heap, inv>>

CallGetSharedLibraryPathsAsArguments ==
    /\ call = NoCall
    /\ \E libraries \in LibraryLists(LibIds), libDownloadPath \in DownloadDirs,
          toolchainPath \in ToolchainDirs, dirPath \in DownloadDirs :
         call' = [op |-> "getSharedLibraryPathsAsArguments", libraries |-> libraries,
                  libDownloadPath |-> libDownloadPath,
                  toolchainPath |-> toolchainPath, dirPath |-> dirPath,
                  result |-> getSharedLibraryPathsAsArguments(
                                 libraries, libDownloadPath, toolchainPath, dirPath)]
    /\ UNCHANGED <<compiler, buildenvsetup, fs, rewriting, heap, inv>>

(***************************************************************************)
(* FortranCompiler.runCompiler                                             *)
(***************************************************************************)
Invocations == 1..MaxInvocations

\* execution-options objects: a negative id is an object supplied by the
\* caller, the positive id i is the object getDefaultExecOptions() creates
\* for invocation i; Undefined is a missing execOptions argument
CallerOptions == {-1}
Undefined == 0
ObjIds == CallerOptions \cup Invocations

Unset == <<"#unset">>

Work1 == <<Sep, "w1">>
Work2 == <<Sep, "w2">>
Prog1 == Work1 \o <<Sep, "prog.f90">>
Prog2 == Work2 \o <<Sep, "prog.f90">>
Mod1  == Work1 \o <<Sep, "mod.f90">>
InputFiles == {Prog1, Prog2}

\* a captured stream is a sequence of fields, a field being a path or a word
Streams ==
    {[stdout |-> <<Prog1>>,
      stderr |-> <<Prog2, <<"Error">>, <<".", Sep, "prog.f90">>>>],
     [stdout |-> << >>, stderr |-> <<Mod1, Prog1>>]}

IdleInvocation ==
    [pc |-> "idle", inputFilename |-> << >>, execOptions |-> Undefined,
     execCalls |-> 0, execCwd |-> Unset, child |-> "none", code |-> 0,
     stdout |-> << >>, stderr |-> << >>, outcome |-> [present |-> FALSE]]

\* BaseCompiler.getDefaultExecOptions(): a new object on every call
getDefaultExecOptions(i) == i

IsAbsolute(p) == p /= << >> /\ p[1] = Sep

SourceMarker == <<"<source>">>

\* utils.parseOutput(text, filename) lies outside this file; it sees the
\* captured text and the filename argument only.  Two rewritings are
\* considered:
\*   "canonical": every absolute path with the base name of `filename` is
\*                rewritten to `filename`;
\*   "marker":    every occurrence of `filename`, with or without its
\*                leading "./", is rewritten to the source marker.
Rewritings == {"canonical", "marker"}

parseOutput(text, filename) ==
    [k \in DOMAIN text |->
        IF rewriting = "canonical"
        THEN (IF IsAbsolute(text[k]) /\ Basename(text[k]) = Basename(filename)
              THEN filename ELSE text[k])
        ELSE (IF text[k] = filename \/ text[k] = SubSeq(filename, 3, Len(filename))
              THEN SourceMarker ELSE text[k])]

\* variant: a working directory already carried by the options is kept
SetCustomCwdIfUnset(h, opts, inputFilename) ==
    IF h[opts].customCwd = Unset
    THEN [h EXCEPT ![opts].customCwd = Dirname(inputFilename)]
    ELSE h

\* variant: the working directory is a process-wide setting
SetCustomCwdProcessWide(h, opts, inputFilename) ==
    [o \in DOMAIN h |-> [h[o] EXCEPT !.customCwd = Dirname(inputFilename)]]

\* execOptions.customCwd = path.dirname(inputFilename)
SetCustomCwd(h, opts, inputFilename) ==
    [h EXCEPT ![opts].customCwd = Dirname(inputFilename)]

\* variant: the streams are rewritten against the absolute input path
OutcomeAbsolute(result, inputFilename) ==
    [present |-> TRUE, code |-> result.code,
     stdout |-> parseOutput(result.stdout, inputFilename),
     stderr |-> parseOutput(result.stderr, inputFilename),
     inputFilename |-> inputFilename]

\* the object returned after the await
Outcome(result, inputFilename) ==
    LET baseFilename == <<".", Sep>> \o Basename(inputFilename)
    IN  [present |-> TRUE, code |-> result.code,
         stdout |-> parseOutput(result.stdout, baseFilename),
         stderr |-> parseOutput(result.stderr, baseFilename),
         inputFilename |-> inputFilename]

\* variant: the rejection is caught and reported as a failed compilation
AfterRejectionCaught(r) ==
    [r EXCEPT !.pc = "returned", !.child = "launchFailed",
              !.outcome = [present |-> TRUE, code |-> -1, stdout |-> << >>,
                           stderr |-> << >>, inputFilename |-> r.inputFilename]]

\* a rejected await is not caught: the rejection leaves runCompiler
AfterRejection(r) == [r EXCEPT !.pc = "threw", !.child = "launchFailed"]

\* runCompiler up to the await: default the options, override the working
\* directory, hand the options object to exec
RunCompilerCall(i) ==
    /\ inv[i].pc = "idle"
    /\ \E inputFilename \in InputFiles, arg \in CallerOptions \cup {Undefined} :
         LET execOptions == IF arg = Undefined THEN getDefaultExecOptions(i) ELSE arg
         IN  /\ heap' = SetCustomCwd(heap, execOptions, inputFilename)
             /\ inv' = [inv EXCEPT ![i] =
                          [@ EXCEPT !.pc = "awaiting",
                                    !.inputFilename = inputFilename,
                                    !.execOptions = execOptions,
                                    !.execCalls = @ + 1,
                                    !.execCwd = heap'[execOptions].customCwd,
                                    !.child = "running"]]
    /\ UNCHANGED <<compiler, buildenvsetup, fs, call, rewriting>>

\* the child process exits; runCompiler resumes and returns
ExecResolves(i) ==
    /\ inv[i].pc = "awaiting"
    /\ \E code \in 0..MaxExitCode, s \in Streams :
         LET result == [code |-> code, stdout |-> s.stdout, stderr |-> s.stderr]
         IN  inv' = [inv EXCEPT ![i] =
                       [@ EXCEPT !.pc = "returned", !.child = "exited",
                                 !.code = code, !.stdout = s.stdout,
                                 !.stderr = s.stderr,
                                 !.outcome = Outcome(result, inv[i].inputFilename)]]
    /\ UNCHANGED <<compiler, buildenvsetup, fs, call, rewriting, heap>>

\* exec fails to launch the process
ExecRejects(i) ==
    /\ inv[i].pc = "awaiting"
    /\ inv' = [inv EXCEPT ![i] = AfterRejection(@)]
    /\ UNCHANGED <<compiler, buildenvsetup, fs, call, rewriting, heap>>

(***************************************************************************)
(* Specifications                                                          *)
(***************************************************************************)
\* the caller's options object may carry a working directory of its own
InitHeaps ==
    {[o \in ObjIds |-> [customCwd |-> IF o \in CallerOptions THEN c ELSE Unset]] :
        c \in {Unset, <<Sep, "old">>}}

Init ==
    /\ compiler \in Compilers
    /\ buildenvsetup \in BuildEnvSetups
    /\ fs \in SUBSET CandidateFiles
    /\ call = NoCall
    /\ rewriting = "canonical"
    /\ heap = [o \in ObjIds |-> [customCwd |-> Unset]]
    /\ inv = [i \in Invocations |-> IdleInvocation]

Next ==
    \/ CallGetExactStaticLibNameAndPath
    \/ CallGetStaticLibraryLinks
    \/ CallGetSharedLibraryPaths
    \/ CallGetIncludeArguments
    \/ CallGetSharedLibraryPathsAsArguments

Spec == Init /\ [][Next]_vars

InitRun ==
    /\ compiler = CHOOSE c \in Compilers : c.includeFlag = << >>
    /\ buildenvsetup = "none"
    /\ fs = {}
    /\ call = NoCall
    /\ rewriting \in Rewritings
    /\ heap \in InitHeaps
    /\ inv = [i \in Invocations |-> IdleInvocation]

NextRun ==
    \/ \E i \in Invocations : RunCompilerCall(i)
    \/ \E i \in Invocations : ExecResolves(i)
    \/ \E i \in Invocations : ExecRejects(i)

SpecRun == InitRun /\ [][NextRun]_vars

(***************************************************************************)
(* Properties                                                              *)
(***************************************************************************)
Resolved(lib) == lib.id \in DOMAIN Registry

\* the elements of s at their first occurrence, in order
FirstOccurrences(s) ==
    LET keep == {i \in DOMAIN s : \A j \in 1..(i - 1) : s[j] /= s[i]}
        RECURSIVE Pick(_)
        Pick(i) == IF i > Len(s) THEN << >>
                   ELSE (IF i \in keep THEN <<s[i]>> ELSE << >>) \o Pick(i + 1)
    IN  Pick(1)

NonEmpty(s) == SelectSeq(s, LAMBDA x : x /= << >>)

\* <dirPath>/<id>/<sub>
LibrarySubdir(dirPath, lib, sub) == dirPath \o <<Sep, lib.id, Sep, sub>>

\* C1: a library whose version lookup is absent contributes nothing to
\* getSharedLibraryPaths, getSharedLibraryPathsAsArguments and
\* getIncludeArguments: each result equals the result on the list with that
\* library removed.
C1_AbsentContributesNothing ==
    \A i \in (IF call.op \in {"getSharedLibraryPaths", "getIncludeArguments",
                              "getSharedLibraryPathsAsArguments"}
              THEN DOMAIN call.libraries ELSE {}) :
        ~Resolved(call.libraries[i]) =>
            LET without == RemoveAt(call.libraries, i)
            IN  call.result =
                  CASE call.op = "getSharedLibraryPaths" ->
                         getSharedLibraryPaths(without, call.dirPath)
                    [] call.op = "getIncludeArguments" ->
                         getIncludeArguments(without, call.dirPath)
                    [] OTHER ->
                         getSharedLibraryPathsAsArguments(
                             without, call.libDownloadPath, call.toolchainPath,
                             call.dirPath)

\* C2: getStaticLibraryLinks returns no empty string and exactly one entry
\* per library whose archive exists in a search directory, in the order of
\* the sorted library list.
C2_UnresolvedDropped ==
    call.op = "getStaticLibraryLinks" =>
        LET names == NonEmpty(getSortedStaticLibraries(call.libraries))
            paths == [i \in DOMAIN names |->
                         getExactStaticLibNameAndPath(names[i], call.libPaths)]
        IN  /\ << >> \notin Range(call.result)
            /\ call.result = NonEmpty(paths)

\* the paths of the resolved libraries of a list, library by library
RECURSIVE ResolvedSharedPaths(_, _)
ResolvedSharedPaths(libraries, dirPath) ==
    IF libraries = << >> THEN << >>
    ELSE (IF Resolved(Head(libraries))
          THEN Registry[Head(libraries).id].libpath \o
               (IF buildenvsetup = "perLibrary" /\ dirPath /= << >>
                THEN <<LibrarySubdir(dirPath, Head(libraries), "lib")>> ELSE << >>)
          ELSE << >>)
         \o ResolvedSharedPaths(Tail(libraries), dirPath)

\* C3: getSharedLibraryPathsAsArguments is the first-occurrence
\* deduplication of: libPathFlag+downloadRoot, rpathFlag+downloadRoot,
\* rpathFlag on the toolchain-global paths, rpathFlag on <toolchain>/lib64
\* and /lib32, rpathFlag on the resolved shared-library paths, libPathFlag
\* on the same resolved paths.
C3_SixGroupUnion ==
    call.op = "getSharedLibraryPathsAsArguments" =>
        LET rpath == IF compiler.rpathFlag = << >> THEN defaultRpathFlag
                     ELSE compiler.rpathFlag
            lpath == IF compiler.libpathFlag = << >> THEN <<"-L">>
                     ELSE compiler.libpathFlag
            root  == IF call.libDownloadPath = << >> THEN <<".", Sep, "lib">>
                     ELSE call.libDownloadPath
            tc    == IF call.toolchainPath = << >> THEN << >>
                     ELSE <<call.toolchainPath \o <<Sep, "lib64">>,
                            call.toolchainPath \o <<Sep, "lib32">>>>
            sp    == ResolvedSharedPaths(call.libraries, call.dirPath)
            all   == <<lpath \o root, rpath \o root>>
                     \o [i \in DOMAIN compiler.libPath |-> rpath \o compiler.libPath[i]]
                     \o [i \in DOMAIN tc |-> rpath \o tc[i]]
                     \o [i \in DOMAIN sp |-> rpath \o sp[i]]
                     \o [i \in DOMAIN sp |-> lpath \o sp[i]]
        IN  call.result = FirstOccurrences(all)

\* the entries one library contributes to the include arguments
ExpectedIncludeOf(lib, dirPath) ==
    IF ~Resolved(lib) THEN << >>
    ELSE LET info == Registry[lib.id]
             flag == IF compiler.includeFlag = << >> THEN <<"-I">>
                     ELSE compiler.includeFlag
         IN  [i \in DOMAIN info.path |-> flag \o info.path[i]]
             \o (IF info.packagedheaders
                 THEN <<<<"-I">> \o LibrarySubdir(dirPath, lib, "mod"),
                        flag \o LibrarySubdir(dirPath, lib, "include")>>
                 ELSE << >>)

RECURSIVE ExpectedInclude(_, _)
ExpectedInclude(libraries, dirPath) ==
    IF libraries = << >> THEN << >>
    ELSE ExpectedIncludeOf(Head(libraries), dirPath)
         \o ExpectedInclude(Tail(libraries), dirPath)

\* C4: getIncludeArguments returns, library by library in input order, the
\* include flag on each include path and then, when the library has
\* packaged headers, '-I'+<dirPath>/<id>/mod followed by the include flag
\* on <dirPath>/<id>/include; the include flag defaults to '-I'.
C4_IncludeArguments ==
    call.op = "getIncludeArguments" =>
        call.result = ExpectedInclude(call.libraries, call.dirPath)

C4_Witness ==
    /\ call.op = "getIncludeArguments"
    /\ compiler.includeFlag = <<"-isystem">>
    /\ call.libraries = <<[id |-> "fmt"], [id |-> "lapack"]>>
    /\ Len(call.result) = 5
    /\ call.result[3] = <<"-I">> \o call.dirPath \o <<Sep, "fmt", Sep, "mod">>
    /\ call.result[4] = <<"-isystem">> \o call.dirPath \o <<Sep, "fmt", Sep, "include">>

ArchiveIn(dir, lib) == dir \o <<Sep, "lib">> \o lib \o <<".a">>

\* C5: getExactStaticLibNameAndPath returns <d>/lib<name>.a for the first
\* directory d of the list that contains the file, the empty string exactly
\* when no directory contains it, and leaves the filesystem unchanged.
C5_FirstExistingArchive ==
    /\ [](call.op = "getExactStaticLibNameAndPath" =>
            LET hits == {i \in DOMAIN call.libPaths :
                            ArchiveIn(call.libPaths[i], call.lib) \in fs}
            IN  IF hits = {} THEN call.result = << >>
                ELSE \E i \in hits :
                        /\ \A k \in hits : i <= k
                        /\ call.result = ArchiveIn(call.libPaths[i], call.lib))
    /\ [][fs' = fs]_vars

C5_Witness ==
    /\ call.op = "getExactStaticLibNameAndPath"
    /\ call.lib = <<"lapack">>
    /\ call.libPaths = <<DirB, DirA>>
    /\ ArchiveIn(DirA, call.lib) \in fs
    /\ ArchiveIn(DirB, call.lib) \in fs
    /\ call.result = ArchiveIn(DirB, call.lib)

\* the directory d with inputFilename = d/<name>
ContainingDir(f) ==
    CHOOSE d \in {Work1, Work2} :
        /\ Len(f) = Len(d) + 2
        /\ SubSeq(f, 1, Len(d)) = d
        /\ f[Len(d) + 1] = Sep

Started(i) == inv[i].pc /= "idle"

\* C6: the working directory in the options handed to exec is the directory
\* containing inputFilename, whatever the options carried before and also
\* when no options are supplied.
C6_CwdIsInputDirectory ==
    \A i \in Invocations :
        Started(i) =>
            /\ inv[i].execCalls >= 1
            /\ inv[i].execCwd = ContainingDir(inv[i].inputFilename)

C6_Witness ==
    \E i, j \in Invocations :
        /\ inv[i].pc = "awaiting" /\ inv[i].execOptions = -1
        /\ inv[i].execCwd = Work1
        /\ inv[j].pc = "awaiting" /\ inv[j].execOptions = j
        /\ inv[j].execCwd = Work2

OwnCwdKept(i) ==
    heap[inv[i].execOptions].customCwd = ContainingDir(inv[i].inputFilename)

\* C7 (as stated): while an invocation is in flight, the working directory
\* of its options is the directory of its own input, whatever options
\* objects the other invocations were given.
C7_PerInvocationAlways ==
    \A i \in Invocations : inv[i].pc = "awaiting" => OwnCwdKept(i)

\* C7 (amended): while an invocation is in flight, the working directory of
\* its options is the directory of its own input, provided no other
\* invocation was given the same options object.
C7_PerInvocationUnshared ==
    \A i \in Invocations :
        (/\ inv[i].pc = "awaiting"
         /\ \A j \in Invocations \ {i} :
               Started(j) => inv[j].execOptions /= inv[i].execOptions)
        => OwnCwdKept(i)

C7_Witness ==
    \E i, j \in Invocations :
        /\ inv[i].pc = "awaiting" /\ inv[j].pc = "awaiting"
        /\ inv[i].inputFilename = Prog1 /\ inv[j].inputFilename = Prog2
        /\ inv[i].execOptions = -1 /\ inv[j].execOptions = j
        /\ OwnCwdKept(i) /\ OwnCwdKept(j)

\* C8: exec is called exactly once per call; when the child exits with any
\* status runCompiler returns an outcome with that exit code and the
\* original inputFilename; when the launch fails the failure propagates and
\* there is no outcome.
C8_OneExecTransparentExit ==
    \A i \in Invocations :
        /\ Started(i) => inv[i].execCalls = 1
        /\ inv[i].child = "exited" =>
              /\ inv[i].pc = "returned"
              /\ inv[i].outcome.present
              /\ inv[i].outcome.code = inv[i].code
              /\ inv[i].outcome.inputFilename = inv[i].inputFilename
        /\ inv[i].child = "launchFailed" =>
              /\ inv[i].pc = "threw"
              /\ ~inv[i].outcome.present

C8_Witness ==
    \E i, j \in Invocations :
        /\ inv[i].pc = "returned" /\ inv[i].code = 1 /\ inv[i].outcome.code = 1
        /\ inv[i].outcome.inputFilename = Prog1
        /\ inv[j].pc = "threw"

\* every field equal to `from` replaced by `to`
ReplaceAll(text, from, to) ==
    [k \in DOMAIN text |-> IF text[k] = from THEN to ELSE text[k]]

\* './' + the base filename of an input file
RelativeForm(f) == <<".", Sep>> \o SubSeq(f, Len(ContainingDir(f)) + 2, Len(f))

ContributionOf(lib, dirPath, synth) ==
    Registry[lib.id].libpath
    \o (IF synth THEN <<LibrarySubdir(dirPath, lib, "lib")>> ELSE << >>)

RECURSIVE FlattenContributions(_, _, _, _)
FlattenContributions(libraries, dirPath, synth, unresolved) ==
    IF libraries = << >> THEN << >>
    ELSE (IF Resolved(Head(libraries))
          THEN ContributionOf(Head(libraries), dirPath, synth)
          ELSE unresolved)
         \o FlattenContributions(Tail(libraries), dirPath, synth, unresolved)

\* C10 (as stated): getSharedLibraryPaths is the flattening of the resolved
\* libraries' libPaths, each followed by <dirPath>/<id>/lib exactly when
\* dirPath is given and the build environment does not extract all to a
\* common root, including when no build-environment setup is configured.
C10_SynthesizedUnlessExtractAll ==
    call.op = "getSharedLibraryPaths" =>
        call.result =
            FlattenContributions(call.libraries, call.dirPath,
                call.dirPath /= << >> /\ buildenvsetup /= "extractAllToRoot", << >>)

\* C10 (amended): the synthesized path is present exactly when a
\* build-environment setup is configured, it does not extract all to a
\* common root, and dirPath is given; the slot of an unresolved library
\* holds the single non-path element false.
C10_SynthesizedOnlyWithSetup ==
    call.op = "getSharedLibraryPaths" =>
        call.result =
            FlattenContributions(call.libraries, call.dirPath,
                call.dirPath /= << >> /\ buildenvsetup = "perLibrary", <<JsFalse>>)

C10_Witness ==
    /\ call.op = "getSharedLibraryPaths"
    /\ buildenvsetup = "perLibrary"
    /\ call.dirPath = <<Sep, "dl">>
    /\ call.libraries = <<[id |-> "blas"], [id |-> "lapack"]>>
    /\ call.result = <<LapackLib, BlasLib, <<Sep, "dl", Sep, "blas", Sep, "lib">>,
                       LapackLib, <<Sep, "dl", Sep, "lapack", Sep, "lib">>>>

====
